---------------------------- MODULE Spec2Model ----------------------------
(***************************************************************************)
(* A model of the public API of @uswriting/exiftool (src/build.mjs, the    *)
(* part that is src/index.ts): parseMetadata, writeMetadata and            *)
(* transformTags, the objects they allocate (a MemoryFileSystem and two    *)
(* StringBuilders per invocation), the caller's options object they read   *)
(* and write, and the sandboxed module that runs between the two awaits.   *)
(*                                                                         *)
(* Texts (captured streams, file contents) are sequences of strings;       *)
(* argument strings are TLA+ strings built with \o.                        *)
(***************************************************************************)
EXTENDS Integers, Sequences, FiniteSets, TLC

(***************************************************************************)
(* Bounds of the model.                                                    *)
(***************************************************************************)
\* Concurrent invocations of the concurrency specification.
NInv == 2
\* Syscalls (file writes, chunk deliveries) the modules of the invocations
\* in flight issue in all.
MaxSteps == 2
\* The same, in the concurrency specification.
ConcSteps == 2
\* The same, in the standard-stream specification.
StdioSteps == 3
\* A call is started only while the caller's args array is at most this long.
MaxArgs == 3
\* Entries of a tag mapping handed to transformTags.
MaxTags == 2

VARIABLES
  optArgs,     \* options.args of the caller's options object: [defined, arr]
  optConfig,   \* options.config of that object: [present, name, data]
  optTransform,\* whether options.transform is given
  callerArgs,  \* history: options.args as the caller built it
  inv,         \* per invocation: its position and its local constants
  fsStore,     \* the MemoryFileSystem objects, by reference
  sbStore,     \* the StringBuilder objects, by reference
  tagsIn,      \* transformTags: the mapping's entries
  tagsOut,     \* transformTags: the arguments returned
  tagsPc,      \* transformTags: "in" before the call, "out" after
  provided,    \* WASI: the syscall names each provider contributes
  wasiImport,  \* WASI: the merged import table, syscall name -> provider
  regIdx       \* WASI: the next position of the feature list to merge

vars == <<optArgs, optConfig, optTransform, callerArgs, inv, fsStore, sbStore,
          tagsIn, tagsOut, tagsPc, provided, wasiImport, regIdx>>

apiVars == <<optArgs, optConfig, optTransform, callerArgs, inv, fsStore, sbStore>>
tagVars == <<tagsIn, tagsOut, tagsPc>>
wasiVars == <<provided, wasiImport, regIdx>>

Invs == 1..NInv
FsIds == 1..NInv
SbIds == 1..(2 * NInv)

(***************************************************************************)
(* Values.                                                                 *)
(***************************************************************************)
\* The bundled ExifTool script (import exiftool from "./ex").
exiftool == <<"#!perl exiftool">>

\* An array-valued field that may be undefined.
UndefinedArgs == [defined |-> FALSE, arr |-> <<>>]
DefinedArgs(a) == [defined |-> TRUE, arr |-> a]
\* options.args || []
OrEmpty(o) == IF o.defined THEN o.arr ELSE <<>>

NoConfig == [present |-> FALSE, name |-> "", data |-> <<>>]
Config(n, d) == [present |-> TRUE, name |-> n, data |-> d]

\* Tag values: string | number | boolean | array of those.
StrV(s) == [t |-> "str", s |-> s, n |-> 0, b |-> FALSE, a |-> <<>>]
NumV(n) == [t |-> "num", s |-> "", n |-> n, b |-> FALSE, a |-> <<>>]
BoolV(b) == [t |-> "bool", s |-> "", n |-> 0, b |-> b, a |-> <<>>]
ArrV(a) == [t |-> "arr", s |-> "", n |-> 0, b |-> FALSE, a |-> a]

RECURSIVE Join(_, _)
\* Array.prototype.join
Join(strs, sep) ==
  IF strs = <<>> THEN ""
  ELSE IF Len(strs) = 1 THEN strs[1]
  ELSE strs[1] \o sep \o Join(Tail(strs), sep)

RECURSIVE TemplateStr(_)
\* `${value}`: the string conversion of a template literal.
TemplateStr(v) ==
  CASE v.t = "str" -> v.s
    [] v.t = "num" -> ToString(v.n)
    [] v.t = "bool" -> (IF v.b THEN "true" ELSE "false")
    [] v.t = "arr" -> Join([k \in 1..Len(v.a) |-> TemplateStr(v.a[k])], ",")

RECURSIVE Flatten(_)
\* Array.prototype.flatMap's concatenation of the per-entry arrays.
Flatten(seqs) ==
  IF seqs = <<>> THEN <<>> ELSE Head(seqs) \o Flatten(Tail(seqs))

\* A plausible slip: the array test dropped, an array formatted like a scalar.
transformTagsNoArrays(tags) ==
  Flatten([k \in 1..Len(tags) |->
             <<"-" \o tags[k].name \o "=" \o TemplateStr(tags[k].value)>>])

\* transformTags: tags is Object.entries(tags), a sequence of [name, value].
transformTags(tags) ==
  Flatten([k \in 1..Len(tags) |->
             IF tags[k].value.t = "arr"
               THEN [e \in 1..Len(tags[k].value.a) |->
                       "-" \o tags[k].name \o "=" \o TemplateStr(tags[k].value.a[e])]
               ELSE <<"-" \o tags[k].name \o "=" \o TemplateStr(tags[k].value)>>])

(***************************************************************************)
(* The virtual filesystem (./wasi/features/fd, not among the sources):     *)
(* a map from absolute path to node.                                       *)
(***************************************************************************)
DirNode == [type |-> "dir", content |-> <<>>]
FileNode(c) == [type |-> "file", content |-> c]
NoNode == [type |-> "none", content |-> <<>>]

\* new MemoryFileSystem({"/": ""})
MemoryFileSystem == ("/" :> DirNode)

\* addFile(path, content): inserts or replaces a file node; a path that is a
\* directory is left alone (InvalidPathError).
addFile(fs, path, content) ==
  IF path \in DOMAIN fs /\ fs[path].type = "dir" THEN fs
  ELSE [p \in DOMAIN fs \cup {path} |->
          IF p = path THEN FileNode(content) ELSE fs[p]]

\* The module creating a directory at path (nothing happens when it exists).
makeDir(fs, path) ==
  IF path \in DOMAIN fs THEN fs
  ELSE [p \in DOMAIN fs \cup {path} |-> IF p = path THEN DirNode ELSE fs[p]]

\* lookup(path): the node, or a not-found indication; never throws.
lookup(fs, path) == IF path \in DOMAIN fs THEN fs[path] ELSE NoNode

(***************************************************************************)
(* StringBuilder (./sb, not among the sources).                            *)
(***************************************************************************)
LineTerminator == "\n"
sbAppend(buf, text) == buf \o text
sbAppendLine(buf, text) == buf \o text \o <<LineTerminator>>
isMultiline(text) == \E k \in 1..Len(text) : text[k] = LineTerminator

\* textDecoder.decode over the byte values the model uses.
DecodeByte(b) ==
  CASE b = 10 -> LineTerminator
    [] b = 97 -> "a"
    [] b = 98 -> "b"
    [] OTHER -> "?"
decode(bytes) == [k \in 1..Len(bytes) |-> DecodeByte(bytes[k])]

\* A chunk handed to a sink: a string, or a view of bytes.
StrChunk(text) == [view |-> FALSE, bytes |-> <<>>, str |-> text]
ViewChunk(bytes) == [view |-> TRUE, bytes |-> bytes, str |-> <<>>]
ChunkData(c) == IF c.view THEN decode(c.bytes) ELSE c.str

\* A plausible slip: every chunk taken for a single line.
stdoutSinkAlwaysLine(buf, c) == sbAppendLine(buf, ChunkData(c))

\* withStdIo.stdout of either function.
stdoutSink(buf, c) ==
  LET data == ChunkData(c)
  IN IF isMultiline(data) THEN sbAppend(buf, data) ELSE sbAppendLine(buf, data)

\* withStdIo.stderr of either function.
stderrSink(buf, c) ==
  LET data == ChunkData(c)
  IN IF isMultiline(data) THEN sbAppend(buf, data) ELSE sbAppendLine(buf, data)

(***************************************************************************)
(* The synchronous head of parseMetadata and writeMetadata: everything     *)
(* before the first await.                                                 *)
(***************************************************************************)
\* parseMetadata: the filesystem after the addFile calls.
parseSeed(file, config) ==
  LET fs1 == addFile(MemoryFileSystem, "/exiftool", exiftool)
      fs2 == addFile(fs1, "/" \o file.name, file.data)
  IN IF config.present
       THEN addFile(fs2, "/" \o config.name, config.data)
       ELSE fs2

\* writeMetadata: the filesystem after the addFile calls.
writeSeed(file, config) ==
  LET fs1 == addFile(MemoryFileSystem, "/exiftool", exiftool)
      fs2 == addFile(fs1, "/" \o file.name, file.data)
  IN IF config.present
       THEN addFile(fs2, "/" \o config.name, config.data)
       ELSE fs2

\* parseMetadata: options.args after `options.args = options.args || []`
\* and the push of the -config argument (only with a config).
parseOptionsArgs(oargs, config) ==
  IF config.present
    THEN DefinedArgs(Append(OrEmpty(oargs), "-config=" \o config.name))
    ELSE oargs

\* A plausible slip: the input path put before the caller's arguments.
parseArgvFileFirst(oargs, file) ==
  <<"zeroperl", "exiftool">> \o <<"/" \o file.name>> \o OrEmpty(oargs)

\* parseMetadata: the argument vector, from options.args as just updated.
parseArgv(oargs, file) ==
  Append(<<"zeroperl", "exiftool">> \o OrEmpty(oargs), "/" \o file.name)

\* writeMetadata: the array `args` (options.args itself when that is defined,
\* a new array otherwise) after the pushes of the -config and tag arguments.
writeArgs(oargs, config, tags) ==
  LET withConfig == IF config.present
                      THEN Append(OrEmpty(oargs), "-config=" \o config.name)
                      ELSE OrEmpty(oargs)
  IN withConfig \o transformTags(tags)

\* writeMetadata: options.args afterwards: the pushes reach the caller's array
\* only when `args` aliases it.
writeOptionsArgs(oargs, config, tags) ==
  IF oargs.defined THEN DefinedArgs(writeArgs(oargs, config, tags)) ELSE oargs

RECURSIVE StripDashes(_)
\* .replace(/-/g, "")
StripDashes(chars) ==
  IF chars = <<>> THEN ""
  ELSE (IF Head(chars) = "-" THEN "" ELSE Head(chars)) \o StripDashes(Tail(chars))

\* `/${crypto.randomUUID().replace(/-/g, "")}.tmp`
tempFileOf(uuid) == "/" \o StripDashes(uuid) \o ".tmp"

\* writeMetadata: exiftoolArgs.
writeArgv(args, tempFile, file) ==
  Append(<<"zeroperl", "exiftool">> \o args \o <<"-o", tempFile>>, "/" \o file.name)

(***************************************************************************)
(* The tail of both functions: the result, from what start resolved to.    *)
(***************************************************************************)
UndefinedData == [t |-> "undefined", v |-> <<>>]
Result(success, data, error, exitCode) ==
  [success |-> success, data |-> data, error |-> error, exitCode |-> exitCode]
NoResult == Result(FALSE, UndefinedData, <<>>, -1)

\* A plausible slip: the exit code not tested before the output is packed.
parseResultUnchecked(exitCode, out, err, transform) ==
  Result(TRUE,
         [t |-> IF transform THEN "transformed" ELSE "text", v |-> out],
         err, exitCode)

\* parseMetadata after `await wasi.start(instance)`; out and err are
\* stdout.toString() and stderr.toString(); options.transform is applied to
\* the text when given.
parseResult(exitCode, out, err, transform) ==
  IF exitCode # 0
    THEN Result(FALSE, UndefinedData, err, exitCode)
    ELSE Result(TRUE,
                [t |-> IF transform THEN "transformed" ELSE "text", v |-> out],
                err, exitCode)

\* A plausible slip: the input file's node read back instead of the output's.
writeResultInputNode(exitCode, fs, tempFile, file, err) ==
  IF exitCode # 0
    THEN Result(FALSE, UndefinedData, err, exitCode)
    ELSE LET node == lookup(fs, "/" \o file.name)
         IN IF node.type # "file"
              THEN Result(FALSE, UndefinedData,
                          <<"Temporary output file not found: ", tempFile>>, exitCode)
              ELSE Result(TRUE, [t |-> "buffer", v |-> node.content], err, exitCode)

\* writeMetadata after `await wasi.start(instance)`, with the locals it reads.
writeResult(exitCode, fs, tempFile, file, err) ==
  IF exitCode # 0
    THEN Result(FALSE, UndefinedData, err, exitCode)
    ELSE LET node == lookup(fs, tempFile)
         IN IF node.type # "file"
              THEN Result(FALSE, UndefinedData,
                          <<"Temporary output file not found: ", tempFile>>, exitCode)
              ELSE Result(TRUE, [t |-> "buffer", v |-> node.content], err, exitCode)

(***************************************************************************)
(* The invocations.                                                        *)
(***************************************************************************)
NoFile == [name |-> "", data |-> <<>>]
NoView == [fs |-> <<>>, out |-> <<>>, err |-> <<>>]

\* An invocation slot nobody is using.
IdleInv ==
  [pc |-> "idle", kind |-> "none", file |-> NoFile, config |-> NoConfig,
   tags |-> <<>>, entryArgs |-> <<>>, argv |-> <<>>, tempFile |-> "",
   fsRef |-> 0, outRef |-> 0, errRef |-> 0, steps |-> 0, log |-> <<>>,
   view |-> NoView, exitCode |-> -1, result |-> NoResult]

Active == {i \in Invs : inv[i].pc # "idle"}
LiveFs == {inv[i].fsRef : i \in Active}
LiveSb == {inv[i].outRef : i \in Active} \cup {inv[i].errRef : i \in Active}

\* A plausible slip: one filesystem at module scope, shared by every call.
SharedFsRef == CHOOSE id \in FsIds : \A other \in FsIds : id <= other

\* new MemoryFileSystem(...): an object no live invocation refers to.
NewFsRef == CHOOSE id \in FsIds : id \notin LiveFs

\* const stdout = new StringBuilder()
NewStdoutRef == CHOOSE id \in SbIds : id \notin LiveSb

\* const stderr = new StringBuilder()
NewStderrRef == CHOOSE id \in SbIds : id \notin LiveSb \cup {NewStdoutRef}

\* A call takes the lowest slot not in use (which slot is immaterial).
FreeSlot(i) ==
  /\ inv[i].pc = "idle"
  /\ \A j \in Invs : j < i => inv[j].pc # "idle"

\* parseMetadata(file, options) up to `await instantiateStreaming(...)`.
parseMetadata(W, i) ==
  /\ FreeSlot(i)
  /\ Len(OrEmpty(optArgs)) <= MaxArgs
  /\ \E file \in W.files[i] :
       LET fs == parseSeed(file, optConfig)
           oargs == parseOptionsArgs(optArgs, optConfig)
           argv == parseArgv(oargs, file)
       IN /\ optArgs' = oargs
          /\ fsStore' = [fsStore EXCEPT ![NewFsRef] = fs]
          /\ sbStore' = [sbStore EXCEPT ![NewStdoutRef] = <<>>,
                                        ![NewStderrRef] = <<>>]
          /\ inv' = [inv EXCEPT ![i] =
                       [IdleInv EXCEPT !.pc = "instantiating",
                                       !.kind = "parse",
                                       !.file = file,
                                       !.config = optConfig,
                                       !.entryArgs = OrEmpty(optArgs),
                                       !.argv = argv,
                                       !.fsRef = NewFsRef,
                                       !.outRef = NewStdoutRef,
                                       !.errRef = NewStderrRef,
                                       !.view = [fs |-> fs, out |-> <<>>, err |-> <<>>]]]
  /\ UNCHANGED <<optConfig, optTransform, callerArgs, tagVars, wasiVars>>

\* writeMetadata(file, tags, options) up to `await instantiateStreaming(...)`.
writeMetadata(W, i) ==
  /\ FreeSlot(i)
  /\ Len(OrEmpty(optArgs)) <= MaxArgs
  /\ \E file \in W.files[i], tags \in W.tags, uuid \in W.uuids :
       LET fs == writeSeed(file, optConfig)
           args == writeArgs(optArgs, optConfig, tags)
           tempFile == tempFileOf(uuid)
           argv == writeArgv(args, tempFile, file)
       IN /\ optArgs' = writeOptionsArgs(optArgs, optConfig, tags)
          /\ fsStore' = [fsStore EXCEPT ![NewFsRef] = fs]
          /\ sbStore' = [sbStore EXCEPT ![NewStdoutRef] = <<>>,
                                        ![NewStderrRef] = <<>>]
          /\ inv' = [inv EXCEPT ![i] =
                       [IdleInv EXCEPT !.pc = "instantiating",
                                       !.kind = "write",
                                       !.file = file,
                                       !.config = optConfig,
                                       !.tags = tags,
                                       !.entryArgs = OrEmpty(optArgs),
                                       !.argv = argv,
                                       !.tempFile = tempFile,
                                       !.fsRef = NewFsRef,
                                       !.outRef = NewStdoutRef,
                                       !.errRef = NewStderrRef,
                                       !.view = [fs |-> fs, out |-> <<>>, err |-> <<>>]]]
  /\ UNCHANGED <<optConfig, optTransform, callerArgs, tagVars, wasiVars>>

\* `await instantiateStreaming(f(cdn), ...)` resolves; wasi.start is called.
Instantiated(i) ==
  /\ inv[i].pc = "instantiating"
  /\ inv' = [inv EXCEPT ![i].pc = "running"]
  /\ UNCHANGED <<optArgs, optConfig, optTransform, callerArgs, fsStore, sbStore,
                 tagVars, wasiVars>>

\* The same await rejects (the fetch or the compilation failed): the call
\* rejects, and no result is returned.
InstantiateFailed(i) ==
  /\ inv[i].pc = "instantiating"
  /\ inv' = [inv EXCEPT ![i].pc = "rejected"]
  /\ UNCHANGED <<optArgs, optConfig, optTransform, callerArgs, fsStore, sbStore,
                 tagVars, wasiVars>>

RECURSIVE StepsOf(_)
StepsOf(is) ==
  IF is = {} THEN 0
  ELSE LET i == CHOOSE j \in is : TRUE
       IN inv[i].steps + StepsOf(is \ {i})

\* The syscalls issued so far by the invocations in flight.
StepsInFlight == StepsOf(Active)

\* The paths the argument vector names to the module.
ModulePaths(i) ==
  {"/" \o inv[i].file.name} \cup
  (IF inv[i].kind = "write" THEN {inv[i].tempFile} ELSE {})

\* The module writes a file through the filesystem provider, which is bound
\* to this invocation's fileSystem.
ModuleWrite(W, i) ==
  /\ inv[i].pc = "running"
  /\ StepsInFlight < W.maxSteps
  /\ \E p \in ModulePaths(i), c \in W.outputs :
       /\ fsStore' = [fsStore EXCEPT ![inv[i].fsRef] = addFile(@, p, c)]
       /\ inv' = [inv EXCEPT ![i].steps = @ + 1,
                             ![i].view.fs = addFile(@, p, c)]
  /\ UNCHANGED <<optArgs, optConfig, optTransform, callerArgs, sbStore,
                 tagVars, wasiVars>>

\* The module creates a directory where the output file was asked for.
ModuleMkdir(W, i) ==
  /\ inv[i].pc = "running"
  /\ StepsInFlight < W.maxSteps
  /\ inv[i].kind = "write"
  /\ inv[i].tempFile \notin DOMAIN fsStore[inv[i].fsRef]
  /\ fsStore' = [fsStore EXCEPT ![inv[i].fsRef] = makeDir(@, inv[i].tempFile)]
  /\ inv' = [inv EXCEPT ![i].steps = @ + 1,
                        ![i].view.fs = makeDir(@, inv[i].tempFile)]
  /\ UNCHANGED <<optArgs, optConfig, optTransform, callerArgs, sbStore,
                 tagVars, wasiVars>>

\* The provider delivers a chunk of standard output to withStdIo.stdout.
Stdout(W, i) ==
  /\ inv[i].pc = "running"
  /\ StepsInFlight < W.maxSteps
  /\ \E c \in W.chunks :
       /\ sbStore' = [sbStore EXCEPT ![inv[i].outRef] = stdoutSink(@, c)]
       /\ inv' = [inv EXCEPT ![i].steps = @ + 1,
                             ![i].log = Append(@, [stream |-> "stdout", chunk |-> c]),
                             ![i].view.out = stdoutSink(@, c)]
  /\ UNCHANGED <<optArgs, optConfig, optTransform, callerArgs, fsStore,
                 tagVars, wasiVars>>

\* The provider delivers a chunk of standard error to withStdIo.stderr.
Stderr(W, i) ==
  /\ inv[i].pc = "running"
  /\ StepsInFlight < W.maxSteps
  /\ \E c \in W.chunks :
       /\ sbStore' = [sbStore EXCEPT ![inv[i].errRef] = stderrSink(@, c)]
       /\ inv' = [inv EXCEPT ![i].steps = @ + 1,
                             ![i].log = Append(@, [stream |-> "stderr", chunk |-> c]),
                             ![i].view.err = stderrSink(@, c)]
  /\ UNCHANGED <<optArgs, optConfig, optTransform, callerArgs, fsStore,
                 tagVars, wasiVars>>

\* `await wasi.start(instance)` resolves: the module called process-exit,
\* returned, or trapped.
StartResolved(W, i) ==
  /\ inv[i].pc = "running"
  /\ \E code \in W.exitCodes :
       inv' = [inv EXCEPT ![i].pc = "exited", ![i].exitCode = code]
  /\ UNCHANGED <<optArgs, optConfig, optTransform, callerArgs, fsStore, sbStore,
                 tagVars, wasiVars>>

\* The rest of the function after start: the result is built and returned.
Return(i) ==
  /\ inv[i].pc = "exited"
  /\ inv' = [inv EXCEPT ![i].pc = "done",
                        ![i].result =
                          IF inv[i].kind = "parse"
                            THEN parseResult(inv[i].exitCode,
                                             sbStore[inv[i].outRef],
                                             sbStore[inv[i].errRef],
                                             optTransform)
                            ELSE writeResult(inv[i].exitCode,
                                             fsStore[inv[i].fsRef],
                                             inv[i].tempFile,
                                             inv[i].file,
                                             sbStore[inv[i].errRef])]
  /\ UNCHANGED <<optArgs, optConfig, optTransform, callerArgs, fsStore, sbStore,
                 tagVars, wasiVars>>

\* The caller is done with the outcome; the invocation's objects are garbage.
Release(i) ==
  /\ inv[i].pc \in {"done", "rejected"}
  /\ inv' = [inv EXCEPT ![i] = IdleInv]
  /\ fsStore' = [fsStore EXCEPT ![inv[i].fsRef] = <<>>]
  /\ sbStore' = [sbStore EXCEPT ![inv[i].outRef] = <<>>, ![inv[i].errRef] = <<>>]
  /\ UNCHANGED <<optArgs, optConfig, optTransform, callerArgs, tagVars, wasiVars>>

(***************************************************************************)
(* transformTags on its own.                                               *)
(***************************************************************************)
TagNames == {"Author", "Keywords", "Rating"}
TagValues ==
  {StrV("x"), NumV(5), BoolV(TRUE), ArrV(<<>>),
   ArrV(<<StrV("a"), NumV(2)>>), ArrV(<<BoolV(FALSE)>>)}
TagEntries == [name : TagNames, value : TagValues]

\* Object.entries of a tag mapping: the names of an object are distinct.
TagMappings ==
  UNION {{m \in [1..n -> TagEntries] :
            \A j, k \in 1..n : j # k => m[j].name # m[k].name} :
         n \in 0..MaxTags}

ApplyTransformTags ==
  /\ tagsPc = "in"
  /\ tagsOut' = transformTags(tagsIn)
  /\ tagsPc' = "out"
  /\ UNCHANGED <<tagsIn, apiVars, wasiVars>>

(***************************************************************************)
(* The WASI constructor's merge of the feature list (./wasi, not among     *)
(* the sources): the providers are taken in list order and each one's      *)
(* syscalls are assigned into the import table.                            *)
(***************************************************************************)
\* A plausible slip: the filesystem provider listed first.
featuresFsFirst ==
  <<"useMemoryFS", "useEnviron", "useArgs", "useRandom", "useClock", "useProc">>

\* wasiOptions.features of parseMetadata and of writeMetadata.
features ==
  <<"useEnviron", "useArgs", "useRandom", "useClock", "useProc", "useMemoryFS">>

Providers == {features[k] : k \in 1..Len(features)}
Syscalls == {"fd_write", "proc_exit"}
Unsupported == "unsupported"

\* One provider's entries assigned over the table so far.
mergeProvider(table, provider, names) ==
  [s \in Syscalls |-> IF s \in names THEN provider ELSE table[s]]

RegisterFeature ==
  /\ regIdx <= Len(features)
  /\ wasiImport' = mergeProvider(wasiImport, features[regIdx],
                                 provided[features[regIdx]])
  /\ regIdx' = regIdx + 1
  /\ UNCHANGED <<provided, apiVars, tagVars>>

(***************************************************************************)
(* Workloads: the inputs and interleavings a specification explores.       *)
(***************************************************************************)
ImageA == [name |-> "a.jpg", data |-> <<"IMG-A">>]
\* The file the caller in slot i works on, each caller on its own.
ImageOf(i) ==
  [name |-> "img" \o ToString(i) \o ".jpg", data |-> <<"IMG-" \o ToString(i)>>]
\* An input file named like the bundled script.
ImageNamedExiftool == [name |-> "exiftool", data |-> <<"IMG-X">>]
\* A config named like the input file, and one named apart.
ConfigNamedA == Config("a.jpg", <<"CFG-A">>)
ConfigOwn == Config("my.cfg", <<"CFG">>)

ScalarTags == <<[name |-> "Author", value |-> StrV("x")]>>
MixedTags ==
  <<[name |-> "Rating", value |-> NumV(5)],
    [name |-> "Keywords", value |-> ArrV(<<StrV("a"), StrV("b")>>)]>>

\* crypto.randomUUID() values (shortened); a caller's file is taken never to
\* bear the name generated from one.
Uuid1 == <<"3", "f", "-", "9", "c">>

LineChunk == StrChunk(<<"a">>)
MultiChunk == StrChunk(<<"a", LineTerminator, "b", LineTerminator>>)
BytesChunk == ViewChunk(<<98, 10>>)

SeqW ==
  [invs |-> {1},
   files |-> [i \in Invs |-> {ImageA, ImageNamedExiftool}],
   optArgs |-> {UndefinedArgs, DefinedArgs(<<"-json">>)},
   configs |-> {NoConfig, ConfigNamedA, ConfigOwn},
   transforms |-> BOOLEAN,
   tags |-> {ScalarTags, MixedTags},
   uuids |-> {Uuid1},
   chunks |-> {LineChunk},
   outputs |-> {<<"OUT-1">>, <<"OUT-2">>},
   exitCodes |-> {0, 1},
   maxSteps |-> MaxSteps]

ConcW ==
  [invs |-> Invs,
   files |-> [i \in Invs |-> {ImageOf(i)}],
   optArgs |-> {UndefinedArgs},
   configs |-> {NoConfig},
   transforms |-> {FALSE},
   tags |-> {ScalarTags},
   uuids |-> {Uuid1},
   chunks |-> {LineChunk},
   outputs |-> {<<"OUT">>},
   exitCodes |-> {0},
   maxSteps |-> ConcSteps]

StdioW ==
  [invs |-> {1},
   files |-> [i \in Invs |-> {ImageA}],
   optArgs |-> {UndefinedArgs},
   configs |-> {NoConfig},
   transforms |-> {FALSE},
   tags |-> {ScalarTags},
   uuids |-> {Uuid1},
   chunks |-> {LineChunk, MultiChunk, BytesChunk},
   outputs |-> {<<"OUT">>},
   exitCodes |-> {0, 1},
   maxSteps |-> StdioSteps]

(***************************************************************************)
(* Initial states and specifications.                                      *)
(***************************************************************************)
InitApi(W) ==
  /\ optArgs \in W.optArgs
  /\ callerArgs = optArgs
  /\ optConfig \in W.configs
  /\ optTransform \in W.transforms
  /\ inv = [i \in Invs |-> IdleInv]
  /\ fsStore = [id \in FsIds |-> <<>>]
  /\ sbStore = [id \in SbIds |-> <<>>]

\* No tag mapping under conversion.
TagsIdle ==
  /\ tagsIn = <<>>
  /\ tagsOut = <<>>
  /\ tagsPc = "out"

\* A WASI object fully constructed whose providers contribute nothing.
WasiIdle ==
  /\ provided = [p \in Providers |-> {}]
  /\ wasiImport = [s \in Syscalls |-> Unsupported]
  /\ regIdx = Len(features) + 1

NextApi(W) ==
  \E i \in W.invs :
    \/ parseMetadata(W, i)
    \/ writeMetadata(W, i)
    \/ Instantiated(i)
    \/ InstantiateFailed(i)
    \/ ModuleWrite(W, i)
    \/ ModuleMkdir(W, i)
    \/ Stdout(W, i)
    \/ Stderr(W, i)
    \/ StartResolved(W, i)
    \/ Return(i)
    \/ Release(i)

\* One caller, one invocation at a time, the options object reused.
Init == InitApi(SeqW) /\ TagsIdle /\ WasiIdle
Next == NextApi(SeqW)
Spec == Init /\ [][Next]_vars

\* Concurrent invocations.
InitConc == InitApi(ConcW) /\ TagsIdle /\ WasiIdle
NextConc == NextApi(ConcW)
SpecConc == InitConc /\ [][NextConc]_vars

\* The standard streams of one invocation.
InitStdio == InitApi(StdioW) /\ TagsIdle /\ WasiIdle
NextStdio == NextApi(StdioW)
SpecStdio == InitStdio /\ [][NextStdio]_vars

\* transformTags over the tag mappings.
InitTags ==
  /\ InitApi(StdioW) /\ WasiIdle
  /\ tagsIn \in TagMappings
  /\ tagsOut = <<>>
  /\ tagsPc = "in"
NextTags == ApplyTransformTags
SpecTags == InitTags /\ [][NextTags]_vars

\* The construction of the import table, over what the providers contribute.
InitWasi ==
  /\ InitApi(StdioW) /\ TagsIdle
  /\ provided \in [Providers -> SUBSET Syscalls]
  /\ wasiImport = [s \in Syscalls |-> Unsupported]
  /\ regIdx = 1
NextWasi == RegisterFeature
SpecWasi == InitWasi /\ [][NextWasi]_vars

(***************************************************************************)
(* Properties.                                                             *)
(***************************************************************************)
InputPath(i) == "/" \o inv[i].file.name
Done(i) == inv[i].pc = "done"
\* start has just been invoked: the module has issued no syscall yet.
AtStart(i) == inv[i].pc = "running" /\ inv[i].steps = 0

RECURSIVE Captured(_, _)
\* The text one stream's chunks of a delivery log amount to: in delivery
\* order, a multi-line chunk as it is, any other followed by a line terminator.
Captured(log, stream) ==
  IF log = <<>> THEN <<>>
  ELSE LET last == log[Len(log)]
           before == Captured(SubSeq(log, 1, Len(log) - 1), stream)
           text == ChunkData(last.chunk)
       IN IF last.stream # stream THEN before
          ELSE IF isMultiline(text) THEN before \o text
          ELSE before \o text \o <<LineTerminator>>

\* C1: whenever start resolves to a non-zero exit code, parseMetadata and
\* writeMetadata return success = false, data = undefined, error = the text
\* captured from standard error and exitCode = that code; nothing of the
\* filesystem or of standard output is returned as data.
C1_NonZeroExitFails ==
  \A i \in Invs :
    (Done(i) /\ inv[i].exitCode # 0) =>
      /\ inv[i].result.success = FALSE
      /\ inv[i].result.data = UndefinedData
      /\ inv[i].result.error = Captured(inv[i].log, "stderr")
      /\ inv[i].result.exitCode = inv[i].exitCode

\* C1 witness: a write whose module wrote the output file and standard error
\* and then exited non-zero.
C1_Witness ==
  \E i \in Invs :
    /\ Done(i) /\ inv[i].exitCode # 0 /\ inv[i].kind = "write"
    /\ lookup(fsStore[inv[i].fsRef], inv[i].tempFile).type = "file"
    /\ inv[i].result.error # <<>>

\* C2 (as claimed): in every returned result, success = true if and only if
\* exitCode = 0.
C2_SuccessIffExitZero ==
  \A i \in Invs : Done(i) => (inv[i].result.success <=> inv[i].result.exitCode = 0)

\* C3: every invocation has a filesystem and two accumulators of its own;
\* under any interleaving each holds exactly what its own invocation seeded,
\* wrote and captured, and a new invocation starts from its seeds alone.
C3_Isolation ==
  /\ \A i, j \in Active :
       i # j =>
         /\ inv[i].fsRef # inv[j].fsRef
         /\ {inv[i].outRef, inv[i].errRef} \cap {inv[j].outRef, inv[j].errRef} = {}
  /\ \A i \in Active :
       /\ inv[i].outRef # inv[i].errRef
       /\ fsStore[inv[i].fsRef] = inv[i].view.fs
       /\ sbStore[inv[i].outRef] = inv[i].view.out
       /\ sbStore[inv[i].errRef] = inv[i].view.err
       /\ inv[i].pc = "instantiating" =>
            /\ DOMAIN fsStore[inv[i].fsRef] =
                 {"/", "/exiftool", InputPath(i)} \cup
                 (IF inv[i].config.present
                    THEN {"/" \o inv[i].config.name} ELSE {})
            /\ \A p \in DOMAIN fsStore[inv[i].fsRef] :
                 fsStore[inv[i].fsRef][p] \in
                   {DirNode, FileNode(exiftool), FileNode(inv[i].file.data),
                    FileNode(inv[i].config.data)}
            /\ sbStore[inv[i].outRef] = <<>>
            /\ sbStore[inv[i].errRef] = <<>>

\* C3 witness: two invocations running at once on different files, each
\* having acted on its own objects.
C3_Witness ==
  \E i, j \in Invs :
    /\ i # j
    /\ inv[i].pc = "running" /\ inv[j].pc = "running"
    /\ inv[i].file # inv[j].file
    /\ lookup(fsStore[inv[i].fsRef], inv[i].tempFile).type = "file"
    /\ sbStore[inv[j].outRef] # <<>>

\* C4: writeMetadata's argument vector holds "-o" immediately followed by
\* the generated temporary path, which is not the input's path, and on
\* success the data returned is the content of the node at that path as the
\* module left it when start resolved.
C4_OutputNode ==
  \A i \in Invs :
    inv[i].kind = "write" =>
      /\ \E k \in 1..(Len(inv[i].argv) - 1) :
           inv[i].argv[k] = "-o" /\ inv[i].argv[k + 1] = inv[i].tempFile
      /\ inv[i].tempFile # InputPath(i)
      /\ (Done(i) /\ inv[i].result.success) =>
           /\ lookup(inv[i].view.fs, inv[i].tempFile).type = "file"
           /\ inv[i].result.data =
                [t |-> "buffer", v |-> inv[i].view.fs[inv[i].tempFile].content]

\* C4 witness: a successful write, the data returned being the content the
\* module wrote last at the temporary path and not the input's.
C4_Witness ==
  \E i \in Invs :
    /\ inv[i].kind = "write" /\ Done(i) /\ inv[i].result.success
    /\ inv[i].steps = 2
    /\ inv[i].result.data.v = <<"OUT-2">>
    /\ inv[i].result.data.v # fsStore[inv[i].fsRef][InputPath(i)].content

\* C5: the argument vector starts "zeroperl", "exiftool", holds the caller's
\* options.args (as the caller built them, and as they are when the call is
\* made) right after, unmodified and in order, and ends with
\* "/" + file.name; in writeMetadata the order is the args found when the call
\* is made, -config argument, tag arguments, "-o", temporary path, input.
C5_ArgvShape ==
  \A i \in Active :
    LET a == inv[i].argv
        e == inv[i].entryArgs
        orig == OrEmpty(callerArgs)
        cfg == IF inv[i].config.present
                 THEN <<"-config=" \o inv[i].config.name>>
                 ELSE <<>>
    IN /\ Len(a) >= 3 + Len(e)
       /\ a[1] = "zeroperl"
       /\ a[2] = "exiftool"
       /\ \A k \in 1..Len(e) : a[2 + k] = e[k]
       /\ Len(orig) <= Len(e)
       /\ \A k \in 1..Len(orig) : a[2 + k] = orig[k]
       /\ a[Len(a)] = InputPath(i)
       /\ inv[i].kind = "write" =>
            a = <<"zeroperl", "exiftool">> \o e \o cfg
                  \o transformTags(inv[i].tags)
                  \o <<"-o", inv[i].tempFile, InputPath(i)>>

\* C5 witness: a write called with caller args, a config and an
\* array-valued tag.
C5_Witness ==
  \E i \in Active :
    /\ inv[i].entryArgs # <<>>
    /\ inv[i].config.present
    /\ inv[i].kind = "write"
    /\ inv[i].tags = MixedTags

RECURSIVE ArgCount(_)
\* The arguments a mapping's entries call for: one per scalar, one per
\* element of an array.
ArgCount(tags) ==
  IF tags = <<>> THEN 0
  ELSE (IF Head(tags).value.t = "arr" THEN Len(Head(tags).value.a) ELSE 1)
       + ArgCount(Tail(tags))

\* C6: transformTags yields, entry by entry in the mapping's order, one
\* argument "-name=value" for a scalar and one "-name=element" per element
\* of an array in element order; so as many arguments as scalars plus array
\* elements, none for an empty array.
C6_TagArguments ==
  tagsPc = "out" =>
    /\ Len(tagsOut) = ArgCount(tagsIn)
    /\ \A k \in 1..Len(tagsIn) :
         LET off == ArgCount(SubSeq(tagsIn, 1, k - 1))
             v == tagsIn[k].value
             prefix == "-" \o tagsIn[k].name \o "="
         IN IF v.t = "arr"
              THEN \A e \in 1..Len(v.a) :
                     tagsOut[off + e] = prefix \o TemplateStr(v.a[e])
              ELSE tagsOut[off + 1] = prefix \o TemplateStr(v)

\* C6 witness: a mapping with a scalar, then an array of two elements,
\* converted to three arguments.
C6_Witness ==
  /\ tagsPc = "out"
  /\ Len(tagsIn) = 2
  /\ tagsIn[1].value = NumV(5)
  /\ tagsIn[2].value = ArrV(<<StrV("a"), NumV(2)>>)
  /\ tagsOut = <<"-" \o tagsIn[1].name \o "=5",
                 "-" \o tagsIn[2].name \o "=a",
                 "-" \o tagsIn[2].name \o "=2">>

\* The order the feature list is stated to have.
ListedOrder ==
  <<"useEnviron", "useArgs", "useRandom", "useClock", "useProc", "useMemoryFS">>

\* C7: of the providers merged so far that contribute a syscall name, the
\* one latest in the list environ, args, random, clock, proc, memory
\* filesystem holds the name in the import table; the finished table is
\* thus a function of the contributions alone.
C7_LastRegisteredWins ==
  \A s \in Syscalls :
    LET claimants == {k \in 1..(regIdx - 1) : s \in provided[ListedOrder[k]]}
    IN IF claimants = {}
         THEN wasiImport[s] = Unsupported
         ELSE \E k \in claimants :
                /\ \A other \in claimants : other <= k
                /\ wasiImport[s] = ListedOrder[k]

\* C7 witness: the table is finished, the process and the filesystem
\* providers both contribute fd_write, and the filesystem's is the one held.
C7_Witness ==
  /\ regIdx = Len(ListedOrder) + 1
  /\ "fd_write" \in provided["useProc"] \cap provided["useMemoryFS"]
  /\ wasiImport["fd_write"] = "useMemoryFS"

\* C8: each stream's captured text is the concatenation, in delivery order,
\* of that stream's chunks alone, a multi-line chunk as it is and any other
\* followed by a line terminator.
C8_CapturedInOrder ==
  \A i \in Active :
    /\ sbStore[inv[i].outRef] = Captured(inv[i].log, "stdout")
    /\ sbStore[inv[i].errRef] = Captured(inv[i].log, "stderr")

\* C8 witness: a multi-line chunk on standard output, a single line on
\* standard error, then a view of bytes on standard output.
C8_Witness ==
  \E i \in Active :
    /\ Len(inv[i].log) = 3
    /\ inv[i].log[1] = [stream |-> "stdout", chunk |-> MultiChunk]
    /\ inv[i].log[2] = [stream |-> "stderr", chunk |-> LineChunk]
    /\ inv[i].log[3] = [stream |-> "stdout", chunk |-> BytesChunk]
    /\ sbStore[inv[i].outRef] =
         <<"a", LineTerminator, "b", LineTerminator, "b", LineTerminator>>
    /\ sbStore[inv[i].errRef] = <<"a", LineTerminator>>

\* C9 (as claimed): the caller's options.args stay as the caller built
\* them, and every call's argument vector is the one a fresh copy of the
\* options would give.
C9_OptionsUnchanged ==
  /\ optArgs = callerArgs
  /\ \A i \in Active :
       inv[i].argv =
         IF inv[i].kind = "parse"
           THEN parseArgv(parseOptionsArgs(callerArgs, inv[i].config), inv[i].file)
           ELSE writeArgv(writeArgs(callerArgs, inv[i].config, inv[i].tags),
                          inv[i].tempFile, inv[i].file)

\* C10 (as claimed): when start is invoked the script, the input and the
\* config are each intact at their paths, whatever the names.
C10_SeedsIntact ==
  \A i \in Invs :
    AtStart(i) =>
      LET fs == fsStore[inv[i].fsRef]
      IN /\ lookup(fs, "/exiftool") = FileNode(exiftool)
         /\ lookup(fs, InputPath(i)) = FileNode(inv[i].file.data)
         /\ inv[i].config.present =>
              lookup(fs, "/" \o inv[i].config.name) = FileNode(inv[i].config.data)

=============================================================================
